---- MODULE Spec2Model ----
(***************************************************************************)
(* A model of the SauceNAO API client (package saucenao): the rendering of *)
(* a SearchRequest into an HTTP request (searchURL, requestForSearch), the *)
(* Search call (transport, status switch, body read, JSON decoding) and    *)
(* the per-result decoding AsDanbooru.                                     *)
(*                                                                         *)
(* Strings are sequences of one-character strings, so that concatenation,  *)
(* percent-encoding and decimal formatting are computed character by       *)
(* character.  A few multi-character atoms stand for byte runs the model   *)
(* never looks into (the multipart boundary, MIME header fragments).       *)
(***************************************************************************)
EXTENDS Integers, Sequences, FiniteSets, TLC

VARIABLES
    c,          \* the Client: Service, APIKey (C, the transport, is the environment)
    r,          \* the SearchRequest of the current Search call
    streamPos,  \* bytes consumed so far from r.ImageBytes
    pc,         \* position of the current Search call
    req,        \* the *http.Request built by requestForSearch
    sent,       \* requests handed to the transport (c.C.Do) by the current call
    resp,       \* the transport's answer to the current call
    body,       \* what ioutil.ReadAll returned for resp.Body
    steps,      \* which steps of Search the current call has executed
    ret,        \* what Search returned: (*SearchResponse, error)
    dan,        \* what the caller's last AsDanbooru returned
    nCalls      \* Search calls started on this client

vars == <<c, r, streamPos, pc, req, sent, resp, body, steps, ret, dan, nCalls>>

(***************************************************************************)
(* Bounds                                                                  *)
(***************************************************************************)
MaxImageLen == 2
MaxResults == 2
MaxCalls == 2

(***************************************************************************)
(* Generic sequence helpers                                                *)
(***************************************************************************)
RECURSIVE Flatten(_)
Flatten(ss) == IF ss = <<>> THEN <<>> ELSE Head(ss) \o Flatten(Tail(ss))

\* s has pat at position i (1-based)
HasAt(s, pat, i) ==
    /\ i >= 1
    /\ i + Len(pat) - 1 <= Len(s)
    /\ SubSeq(s, i, i + Len(pat) - 1) = pat

\* first position >= from where pat occurs in s, 0 when there is none
IndexFrom(s, pat, from) ==
    LET hits == {i \in from..Len(s) : HasAt(s, pat, i)}
    IN  IF hits = {} THEN 0 ELSE CHOOSE i \in hits : \A j \in hits : i <= j

Contains(s, pat) == IndexFrom(s, pat, 1) # 0

SeqsUpTo(S, n) == UNION {[1..k -> S] : k \in 0..n}

(***************************************************************************)
(* Errors.  msg is the text of Error(); chain lists the dynamic types      *)
(* errors.Is / errors.As can see, outermost first: fmt.Errorf with %w      *)
(* keeps the wrapped error's chain, with %s or %v it keeps only its text.  *)
(***************************************************************************)
NilErr == [msg |-> <<>>, chain |-> <<>>]

\* errors.New / an error value of dynamic type typ
NewErr(typ, text) == [msg |-> <<text>>, chain |-> <<typ>>]

\* fmt.Errorf(prefix + "%w", e)
ErrorfW(prefix, e) == [msg |-> <<prefix>> \o e.msg, chain |-> <<"*fmt.wrapError">> \o e.chain]

\* fmt.Errorf(prefix + "%s", e)
ErrorfS(prefix, e) == [msg |-> <<prefix>> \o e.msg, chain |-> <<"*errors.errorString">>]

\* errors.As(e, &target) for a target of type typ
ErrorsAs(e, typ) == \E i \in 1..Len(e.chain) : e.chain[i] = typ

QuotaError == NewErr("saucenao.QuotaError", "rate limited")

(***************************************************************************)
(* strconv.FormatUint(n, 10)                                               *)
(***************************************************************************)
Digits == <<"0", "1", "2", "3", "4", "5", "6", "7", "8", "9">>

RECURSIVE FormatUint(_)
FormatUint(n) ==
    IF n < 10 THEN <<Digits[n + 1]>>
    ELSE FormatUint(n \div 10) \o <<Digits[(n % 10) + 1]>>

(***************************************************************************)
(* url.QueryEscape: unreserved bytes are kept, a space becomes "+", every  *)
(* other byte becomes %XX in upper-case hexadecimal.                       *)
(***************************************************************************)
HexDigits == <<"0", "1", "2", "3", "4", "5", "6", "7", "8", "9",
               "A", "B", "C", "D", "E", "F">>

\* the byte value of each character the model uses
ByteOf(ch) ==
    CASE ch = "\n" -> 10  [] ch = " " -> 32  [] ch = "&" -> 38
      [] ch = "/" -> 47   [] ch = ":" -> 58  [] ch = "=" -> 61
      [] ch = "a" -> 97   [] ch = "b" -> 98  [] ch = "h" -> 104
      [] ch = "k" -> 107  [] ch = "x" -> 120 [] ch = "." -> 46
      [] OTHER -> 63

Unreserved == {"a", "b", "h", "k", "x", ".", "-", "_", "~"}

EscapeByte(ch) ==
    IF ch \in Unreserved THEN <<ch>>
    ELSE IF ch = " " THEN <<"+">>
    ELSE <<"%", HexDigits[(ByteOf(ch) \div 16) + 1], HexDigits[(ByteOf(ch) % 16) + 1]>>

RECURSIVE QueryEscape(_)
QueryEscape(s) ==
    IF s = <<>> THEN <<>> ELSE EscapeByte(Head(s)) \o QueryEscape(Tail(s))

(***************************************************************************)
(* Client.searchURL: the strings.Builder writes, in program order.         *)
(***************************************************************************)
SearchPhp == <<"/", "s", "e", "a", "r", "c", "h", ".", "p", "h", "p", "?",
               "o", "u", "t", "p", "u", "t", "_", "t", "y", "p", "e", "=", "2",
               "&", "a", "p", "i", "_", "k", "e", "y", "=">>
NumresParam == <<"&", "n", "u", "m", "r", "e", "s", "=">>
TestmodeParam == <<"&", "t", "e", "s", "t", "m", "o", "d", "e", "=", "1">>
DbmaskParam == <<"&", "d", "b", "m", "a", "s", "k", "=">>
DbmaskiParam == <<"&", "d", "b", "m", "a", "s", "k", "i", "=">>
UrlParam == <<"&", "u", "r", "l", "=">>

\* a searchURL that leaves the url parameter out when ImageBytes is set
searchURL_NoURLWithImage(cl, rq) ==
    cl.Service \o SearchPhp \o cl.APIKey
      \o NumresParam \o FormatUint(rq.NumRes)
      \o (IF rq.TestMode THEN TestmodeParam ELSE <<>>)
      \o (IF rq.DBMask # 0 THEN DbmaskParam \o FormatUint(rq.DBMask) ELSE <<>>)
      \o (IF rq.DBMaskI # 0 THEN DbmaskiParam \o FormatUint(rq.DBMaskI) ELSE <<>>)
      \o (IF rq.URL # <<>> /\ ~rq.ImageBytes.set
          THEN UrlParam \o QueryEscape(rq.URL) ELSE <<>>)

\* a searchURL that tests DBMask where it should test DBMaskI
searchURL_MaskISharesMask(cl, rq) ==
    cl.Service \o SearchPhp \o cl.APIKey
      \o NumresParam \o FormatUint(rq.NumRes)
      \o (IF rq.TestMode THEN TestmodeParam ELSE <<>>)
      \o (IF rq.DBMask # 0 THEN DbmaskParam \o FormatUint(rq.DBMask) ELSE <<>>)
      \o (IF rq.DBMask # 0 THEN DbmaskiParam \o FormatUint(rq.DBMaskI) ELSE <<>>)
      \o (IF rq.URL # <<>> THEN UrlParam \o QueryEscape(rq.URL) ELSE <<>>)

searchURL(cl, rq) ==
    cl.Service \o SearchPhp \o cl.APIKey
      \o NumresParam \o FormatUint(rq.NumRes)
      \o (IF rq.TestMode THEN TestmodeParam ELSE <<>>)
      \o (IF rq.DBMask # 0 THEN DbmaskParam \o FormatUint(rq.DBMask) ELSE <<>>)
      \o (IF rq.DBMaskI # 0 THEN DbmaskiParam \o FormatUint(rq.DBMaskI) ELSE <<>>)
      \o (IF rq.URL # <<>> THEN UrlParam \o QueryEscape(rq.URL) ELSE <<>>)

(***************************************************************************)
(* http.NewRequestWithContext(ctx, method, url, body): its only failure    *)
(* for a fixed valid method and a non-nil context is url.Parse, which      *)
(* rejects a control byte anywhere in the string and a first path segment  *)
(* that holds a colon when there is no scheme.                             *)
(***************************************************************************)
CtlBytes == {"\n", "\r"}

NewRequestFails(u) ==
    \/ \E i \in 1..Len(u) : u[i] \in CtlBytes
    \/ (u # <<>> /\ u[1] = ":")

NoReq == [method |-> "", url |-> <<>>, hasBody |-> FALSE, body |-> <<>>,
          contentType |-> <<>>]

(***************************************************************************)
(* The io.Reader behind ImageBytes: it yields data, and either ends with   *)
(* io.EOF or, when failAt >= 0, fails after failAt bytes.  io.Copy reads   *)
(* from the current position until EOF or the first error.                 *)
(***************************************************************************)
NoImage == [set |-> FALSE, data |-> <<>>, failAt |-> -1]

ReadError == NewErr("*os.PathError", "read image: input/output error")

ioCopy(img, pos) ==
    IF img.failAt >= 0 /\ pos <= img.failAt
    THEN [copied |-> SubSeq(img.data, pos + 1, img.failAt), pos |-> img.failAt,
          err |-> ReadError]
    ELSE [copied |-> SubSeq(img.data, pos + 1, Len(img.data)), pos |-> Len(img.data),
          err |-> NilErr]

(***************************************************************************)
(* mime/multipart.Writer on a bytes.Buffer: CreateFormFile writes the      *)
(* opening delimiter and the part's header, the part's writer appends the  *)
(* content, Close writes the closing delimiter.  bnd is the writer's       *)
(* random boundary, an atom that no image byte equals.                     *)
(***************************************************************************)
CRLF == <<"\r", "\n">>
Dashes == <<"-", "-">>

CreateFormFile(bnd, fieldname, filename) ==
    Dashes \o <<bnd>> \o CRLF
      \o <<"Content-Disposition: form-data; name=\"", fieldname,
           "\"; filename=\"", filename, "\"">> \o CRLF
      \o <<"Content-Type: application/octet-stream">> \o CRLF
      \o CRLF

WriterClose(bnd) == CRLF \o Dashes \o <<bnd>> \o Dashes \o CRLF

FormDataContentType(bnd) == <<"multipart/form-data", "; boundary=", bnd>>

(***************************************************************************)
(* Client.requestForSearch.  The result holds the request, the returned    *)
(* error, whether the function panicked, and the reader's new position.    *)
(***************************************************************************)
BuildResult(rq, e, p, pos) == [req |-> rq, err |-> e, panicked |-> p, pos |-> pos]

\* a requestForSearch that drops io.Copy's error and goes on
requestForSearch_IgnoresCopyError(cl, rq, pos, bnd) ==
    IF ~rq.ImageBytes.set
    THEN IF NewRequestFails(searchURL(cl, rq))
         THEN BuildResult(NoReq, NilErr, TRUE, pos)
         ELSE BuildResult([method |-> "GET", url |-> searchURL(cl, rq),
                           hasBody |-> FALSE, body |-> <<>>, contentType |-> <<>>],
                          NilErr, FALSE, pos)
    ELSE LET cp == ioCopy(rq.ImageBytes, pos)
             b == CreateFormFile(bnd, "file", "image") \o cp.copied \o WriterClose(bnd)
         IN  IF NewRequestFails(searchURL(cl, rq))
             THEN BuildResult(NoReq, NilErr, TRUE, cp.pos)
             ELSE BuildResult([method |-> "POST", url |-> searchURL(cl, rq),
                               hasBody |-> TRUE, body |-> b,
                               contentType |-> FormDataContentType(bnd)],
                              NilErr, FALSE, cp.pos)

\* a requestForSearch that never closes the multipart writer
requestForSearch_NoClose(cl, rq, pos, bnd) ==
    IF ~rq.ImageBytes.set
    THEN IF NewRequestFails(searchURL(cl, rq))
         THEN BuildResult(NoReq, NilErr, TRUE, pos)
         ELSE BuildResult([method |-> "GET", url |-> searchURL(cl, rq),
                           hasBody |-> FALSE, body |-> <<>>, contentType |-> <<>>],
                          NilErr, FALSE, pos)
    ELSE LET cp == ioCopy(rq.ImageBytes, pos)
             b == CreateFormFile(bnd, "file", "image") \o cp.copied
         IN  IF cp.err # NilErr
             THEN BuildResult(NoReq, cp.err, FALSE, cp.pos)
             ELSE IF NewRequestFails(searchURL(cl, rq))
             THEN BuildResult(NoReq, NilErr, TRUE, cp.pos)
             ELSE BuildResult([method |-> "POST", url |-> searchURL(cl, rq),
                               hasBody |-> TRUE, body |-> b,
                               contentType |-> FormDataContentType(bnd)],
                              NilErr, FALSE, cp.pos)

requestForSearch(cl, rq, pos, bnd) ==
    IF ~rq.ImageBytes.set
    THEN \* case nil: http.NewRequestWithContext(ctx, "GET", c.searchURL(r), nil)
         IF NewRequestFails(searchURL(cl, rq))
         THEN BuildResult(NoReq, NilErr, TRUE, pos)
         ELSE BuildResult([method |-> "GET", url |-> searchURL(cl, rq),
                           hasBody |-> FALSE, body |-> <<>>, contentType |-> <<>>],
                          NilErr, FALSE, pos)
    ELSE \* default: multipart body; CreateFormFile on a bytes.Buffer cannot fail
         LET cp == ioCopy(rq.ImageBytes, pos)
             b == CreateFormFile(bnd, "file", "image") \o cp.copied \o WriterClose(bnd)
         IN  IF cp.err # NilErr
             THEN BuildResult(NoReq, cp.err, FALSE, cp.pos)
             ELSE IF NewRequestFails(searchURL(cl, rq))
             THEN BuildResult(NoReq, NilErr, TRUE, cp.pos)
             ELSE BuildResult([method |-> "POST", url |-> searchURL(cl, rq),
                               hasBody |-> TRUE, body |-> b,
                               contentType |-> FormDataContentType(bnd)],
                              NilErr, FALSE, cp.pos)

(***************************************************************************)
(* checkRequestFile: mime.ParseMediaType on the Content-Type header, then  *)
(* multipart.NewReader(req.Body, boundary).NextPart and ioutil.ReadAll.    *)
(* NextPart wants the opening delimiter line, reads header lines up to the *)
(* empty line; the part's content runs to the next CRLF "--" boundary.     *)
(***************************************************************************)
ParseMediaType(ct) ==
    IF Len(ct) = 3 /\ ct[2] = "; boundary="
    THEN [ok |-> TRUE, media |-> ct[1], boundary |-> ct[3]]
    ELSE [ok |-> FALSE, media |-> "", boundary |-> ""]

NoPart == [ok |-> FALSE, name |-> "", filename |-> "", content |-> <<>>, last |-> FALSE]

NextPart(b, bnd) ==
    LET open == Dashes \o <<bnd>> \o CRLF
        hdrEnd == IndexFrom(b, CRLF \o CRLF, Len(open) + 1)
        start == hdrEnd + 4
        delim == CRLF \o Dashes \o <<bnd>>
        stop == IF hdrEnd = 0 THEN 0 ELSE IndexFrom(b, delim, start)
        hdr == SubSeq(b, Len(open) + 1, hdrEnd - 1)
    IN  IF ~HasAt(b, open, 1) \/ hdrEnd = 0 \/ stop = 0 THEN NoPart
        ELSE [ok |-> TRUE,
              name |-> IF Len(hdr) >= 2
                          /\ hdr[1] = "Content-Disposition: form-data; name=\""
                       THEN hdr[2] ELSE "",
              filename |-> IF Len(hdr) >= 4 /\ hdr[3] = "\"; filename=\""
                           THEN hdr[4] ELSE "",
              content |-> SubSeq(b, start, stop - 1),
              \* the delimiter that ends the part is the closing one
              last |-> HasAt(b, Dashes \o CRLF, stop + Len(delim))
                       /\ stop + Len(delim) + 3 = Len(b)]

checkRequestFile(rq) ==
    LET mt == ParseMediaType(rq.contentType)
    IN  IF ~mt.ok THEN NoPart ELSE NextPart(rq.body, mt.boundary)

(***************************************************************************)
(* JSON on the wire.  A body or payload is Empty (no bytes), Malformed     *)
(* (bytes json.Unmarshal's syntax check rejects) or a JSON value: null, a  *)
(* number (its literal text), a string (its content), an array, or an      *)
(* object (its members in wire order).  Text fields hold one atom, numeric *)
(* strings hold their characters.                                          *)
(***************************************************************************)
Empty == [k |-> "empty"]
Malformed == [k |-> "malformed"]
JNull == [k |-> "null"]
JNum(lit) == [k |-> "num", lit |-> lit]
JStr(chars) == [k |-> "str", s |-> chars]
JArr(xs) == [k |-> "arr", xs |-> xs]
JObj(ms) == [k |-> "obj", ms |-> ms]
Member(key, val) == [key |-> key, val |-> val]

SyntaxError == NewErr("*json.SyntaxError", "unexpected end of JSON input")
UnmarshalTypeError == NewErr("*json.UnmarshalTypeError", "json: cannot unmarshal value into Go value")
StringTagError == NewErr("*errors.errorString", "json: invalid use of ,string struct tag")

\* the result of decoding into one Go value: hard stops the whole Unmarshal
\* (a returned error), a soft error is saved and decoding goes on
Dec(v, e, hard) == [v |-> v, err |-> e, hard |-> hard]

(***************************************************************************)
(* strconv.ParseInt / ParseFloat on a JSON number literal.  A float64 is   *)
(* kept in hundredths.                                                     *)
(***************************************************************************)
IsDigit(ch) == \E i \in 1..10 : Digits[i] = ch
DigitVal(ch) == (CHOOSE i \in 1..10 : Digits[i] = ch) - 1

RECURSIVE ParseDigits(_, _)
ParseDigits(lit, acc) ==
    IF lit = <<>> THEN acc ELSE ParseDigits(Tail(lit), acc * 10 + DigitVal(Head(lit)))

AllDigits(lit) == lit # <<>> /\ \A i \in 1..Len(lit) : IsDigit(lit[i])

IsIntLiteral(lit) == AllDigits(lit)

IsNumberLiteral(lit) ==
    LET dot == IndexFrom(lit, <<".">>, 1)
    IN  IF dot = 0 THEN AllDigits(lit)
        ELSE /\ AllDigits(SubSeq(lit, 1, dot - 1))
             /\ AllDigits(SubSeq(lit, dot + 1, Len(lit)))
             /\ Len(lit) - dot <= 2

ParseFloat(lit) ==
    LET dot == IndexFrom(lit, <<".">>, 1)
        frac == SubSeq(lit, dot + 1, Len(lit))
    IN  IF dot = 0 THEN 100 * ParseDigits(lit, 0)
        ELSE 100 * ParseDigits(SubSeq(lit, 1, dot - 1), 0)
               + (IF Len(frac) = 1 THEN 10 * ParseDigits(frac, 0) ELSE ParseDigits(frac, 0))

(***************************************************************************)
(* Decoding one JSON value into a Go field (encoding/json literalStore,    *)
(* array, and the ",string" branch of object).  old is the field's value   *)
(* before: null leaves it alone.                                           *)
(***************************************************************************)
\* int
DecodeInt(j, old) ==
    CASE j.k = "null" -> Dec(old, NilErr, FALSE)
      [] j.k = "num" -> IF IsIntLiteral(j.lit) THEN Dec(ParseDigits(j.lit, 0), NilErr, FALSE)
                        ELSE Dec(old, UnmarshalTypeError, FALSE)
      [] OTHER -> Dec(old, UnmarshalTypeError, FALSE)

\* float64
DecodeFloat(j, old) ==
    CASE j.k = "null" -> Dec(old, NilErr, FALSE)
      [] j.k = "num" -> Dec(ParseFloat(j.lit), NilErr, FALSE)
      [] OTHER -> Dec(old, UnmarshalTypeError, FALSE)

\* int `json:",string"`: the value must be a JSON string holding a number
DecodeIntString(j, old) ==
    CASE j.k = "null" -> Dec(old, NilErr, FALSE)
      [] j.k = "str" ->
            IF ~IsNumberLiteral(j.s) THEN Dec(old, StringTagError, TRUE)
            ELSE IF IsIntLiteral(j.s) THEN Dec(ParseDigits(j.s, 0), NilErr, FALSE)
            ELSE Dec(old, UnmarshalTypeError, FALSE)
      [] OTHER -> Dec(old, StringTagError, FALSE)

\* float64 `json:",string"`
DecodeFloatString(j, old) ==
    CASE j.k = "null" -> Dec(old, NilErr, FALSE)
      [] j.k = "str" ->
            IF ~IsNumberLiteral(j.s) THEN Dec(old, StringTagError, TRUE)
            ELSE Dec(ParseFloat(j.s), NilErr, FALSE)
      [] OTHER -> Dec(old, StringTagError, FALSE)

\* string
DecodeString(j, old) ==
    CASE j.k = "null" -> Dec(old, NilErr, FALSE)
      [] j.k = "str" -> Dec(j.s, NilErr, FALSE)
      [] OTHER -> Dec(old, UnmarshalTypeError, FALSE)

\* []string: every element is decoded, the first error is kept
DecodeStrings(j, old) ==
    CASE j.k = "null" -> Dec(<<>>, NilErr, FALSE)
      [] j.k = "arr" ->
            Dec([i \in 1..Len(j.xs) |-> DecodeString(j.xs[i], <<>>).v],
                IF \A i \in 1..Len(j.xs) : DecodeString(j.xs[i], <<>>).err = NilErr
                THEN NilErr ELSE UnmarshalTypeError,
                FALSE)
      [] OTHER -> Dec(old, UnmarshalTypeError, FALSE)

\* json.RawMessage: the bytes of the value, whatever it is (null included)
DecodeRaw(j, old) == Dec(j, NilErr, FALSE)

(***************************************************************************)
(* Struct decoding: the members are visited in wire order; a key selects   *)
(* the field whose tag equals it, case folded; unknown keys are skipped;   *)
(* a repeated key decodes again into the same field.                       *)
(***************************************************************************)
FoldKey(key) ==
    CASE key = "Long_limit" -> "long_limit"
      [] key = "Short_limit" -> "short_limit"
      [] OTHER -> key

\* field f of struct value acc.v takes the decoding d
Store(acc, f, d) ==
    Dec([acc.v EXCEPT ![f] = d.v],
        IF d.hard THEN d.err ELSE IF acc.err = NilErr THEN d.err ELSE acc.err,
        d.hard)

(***************************************************************************)
(* SearchHeader                                                            *)
(***************************************************************************)
ZeroSearchHeader ==
    [Status |-> 0, ResultsRequested |-> 0, ResultsReturned |-> 0,
     ShortRemaining |-> 0, LongRemaining |-> 0, ShortLimit |-> 0, LongLimit |-> 0,
     MinimumSimilarity |-> 0]

SearchHeaderField(acc, m) ==
    LET key == FoldKey(m.key)
    IN  CASE key = "status" -> Store(acc, "Status", DecodeInt(m.val, acc.v.Status))
          [] key = "results_requested" ->
                Store(acc, "ResultsRequested", DecodeInt(m.val, acc.v.ResultsRequested))
          [] key = "results_returned" ->
                Store(acc, "ResultsReturned", DecodeInt(m.val, acc.v.ResultsReturned))
          [] key = "short_remaining" ->
                Store(acc, "ShortRemaining", DecodeInt(m.val, acc.v.ShortRemaining))
          [] key = "long_remaining" ->
                Store(acc, "LongRemaining", DecodeInt(m.val, acc.v.LongRemaining))
          [] key = "short_limit" ->
                Store(acc, "ShortLimit", DecodeIntString(m.val, acc.v.ShortLimit))
          [] key = "long_limit" ->
                Store(acc, "LongLimit", DecodeIntString(m.val, acc.v.LongLimit))
          [] key = "minimum_similarity" ->
                Store(acc, "MinimumSimilarity", DecodeFloat(m.val, acc.v.MinimumSimilarity))
          [] OTHER -> acc

RECURSIVE SearchHeaderMembers(_, _)
SearchHeaderMembers(acc, ms) ==
    IF ms = <<>> \/ acc.hard THEN acc
    ELSE SearchHeaderMembers(SearchHeaderField(acc, Head(ms)), Tail(ms))

DecodeSearchHeader(j, old) ==
    CASE j.k = "null" -> Dec(old, NilErr, FALSE)
      [] j.k = "obj" -> SearchHeaderMembers(Dec(old, NilErr, FALSE), j.ms)
      [] OTHER -> Dec(old, UnmarshalTypeError, FALSE)

(***************************************************************************)
(* SearchResultHeader and SearchResult                                     *)
(***************************************************************************)
ZeroSearchResultHeader ==
    [IndexName |-> <<>>, IndexID |-> 0, Thumbnail |-> <<>>, Similarity |-> 0]

SearchResultHeaderField(acc, m) ==
    LET key == FoldKey(m.key)
    IN  CASE key = "index_name" -> Store(acc, "IndexName", DecodeString(m.val, acc.v.IndexName))
          [] key = "index_id" -> Store(acc, "IndexID", DecodeInt(m.val, acc.v.IndexID))
          [] key = "thumbnail" -> Store(acc, "Thumbnail", DecodeString(m.val, acc.v.Thumbnail))
          [] key = "similarity" ->
                Store(acc, "Similarity", DecodeFloatString(m.val, acc.v.Similarity))
          [] OTHER -> acc

RECURSIVE SearchResultHeaderMembers(_, _)
SearchResultHeaderMembers(acc, ms) ==
    IF ms = <<>> \/ acc.hard THEN acc
    ELSE SearchResultHeaderMembers(SearchResultHeaderField(acc, Head(ms)), Tail(ms))

DecodeSearchResultHeader(j, old) ==
    CASE j.k = "null" -> Dec(old, NilErr, FALSE)
      [] j.k = "obj" -> SearchResultHeaderMembers(Dec(old, NilErr, FALSE), j.ms)
      [] OTHER -> Dec(old, UnmarshalTypeError, FALSE)

\* Data is nil (no bytes) until a "data" member is seen
ZeroSearchResult == [Header |-> ZeroSearchResultHeader, Data |-> Empty]

SearchResultField(acc, m) ==
    LET key == FoldKey(m.key)
    IN  CASE key = "header" ->
                Store(acc, "Header", DecodeSearchResultHeader(m.val, acc.v.Header))
          [] key = "data" -> Store(acc, "Data", DecodeRaw(m.val, acc.v.Data))
          [] OTHER -> acc

RECURSIVE SearchResultMembers(_, _)
SearchResultMembers(acc, ms) ==
    IF ms = <<>> \/ acc.hard THEN acc
    ELSE SearchResultMembers(SearchResultField(acc, Head(ms)), Tail(ms))

DecodeSearchResult(j, old) ==
    CASE j.k = "null" -> Dec(old, NilErr, FALSE)
      [] j.k = "obj" -> SearchResultMembers(Dec(old, NilErr, FALSE), j.ms)
      [] OTHER -> Dec(old, UnmarshalTypeError, FALSE)

(***************************************************************************)
(* []SearchResult: the array's elements are decoded in order, each into a  *)
(* fresh element appended to the slice.                                    *)
(***************************************************************************)
\* an array decoder that prepends each element
RECURSIVE SearchResultElems_Reversed(_, _)
SearchResultElems_Reversed(acc, xs) ==
    IF xs = <<>> \/ acc.hard THEN acc
    ELSE LET d == DecodeSearchResult(Head(xs), ZeroSearchResult)
         IN  SearchResultElems_Reversed(
                 Dec(<<d.v>> \o acc.v,
                     IF d.hard THEN d.err ELSE IF acc.err = NilErr THEN d.err ELSE acc.err,
                     d.hard),
                 Tail(xs))

RECURSIVE SearchResultElems(_, _)
SearchResultElems(acc, xs) ==
    IF xs = <<>> \/ acc.hard THEN acc
    ELSE LET d == DecodeSearchResult(Head(xs), ZeroSearchResult)
         IN  SearchResultElems(
                 Dec(Append(acc.v, d.v),
                     IF d.hard THEN d.err ELSE IF acc.err = NilErr THEN d.err ELSE acc.err,
                     d.hard),
                 Tail(xs))

DecodeSearchResults(j, old) ==
    CASE j.k = "null" -> Dec(<<>>, NilErr, FALSE)
      [] j.k = "arr" -> SearchResultElems(Dec(<<>>, NilErr, FALSE), j.xs)
      [] OTHER -> Dec(old, UnmarshalTypeError, FALSE)

(***************************************************************************)
(* SearchResponse, and json.Unmarshal(d, &sr)                              *)
(***************************************************************************)
ZeroSearchResponse == [Header |-> ZeroSearchHeader, Results |-> <<>>]

SearchResponseField(acc, m) ==
    LET key == FoldKey(m.key)
    IN  CASE key = "header" -> Store(acc, "Header", DecodeSearchHeader(m.val, acc.v.Header))
          [] key = "results" -> Store(acc, "Results", DecodeSearchResults(m.val, acc.v.Results))
          [] OTHER -> acc

RECURSIVE SearchResponseMembers(_, _)
SearchResponseMembers(acc, ms) ==
    IF ms = <<>> \/ acc.hard THEN acc
    ELSE SearchResponseMembers(SearchResponseField(acc, Head(ms)), Tail(ms))

UnmarshalSearchResponse(d) ==
    CASE d.k \in {"empty", "malformed"} -> Dec(ZeroSearchResponse, SyntaxError, TRUE)
      [] d.k = "null" -> Dec(ZeroSearchResponse, NilErr, FALSE)
      [] d.k = "obj" -> SearchResponseMembers(Dec(ZeroSearchResponse, NilErr, FALSE), d.ms)
      [] OTHER -> Dec(ZeroSearchResponse, UnmarshalTypeError, FALSE)

(***************************************************************************)
(* DanbooruData (with the embedded CommonData) and SearchResult.AsDanbooru *)
(***************************************************************************)
ZeroDanbooruData ==
    [ExtURLs |-> <<>>, DanbooruID |-> 0, Source |-> <<>>, Characters |-> <<>>,
     Material |-> <<>>, Creator |-> <<>>]

DanbooruDataField(acc, m) ==
    LET key == FoldKey(m.key)
    IN  CASE key = "ext_urls" -> Store(acc, "ExtURLs", DecodeStrings(m.val, acc.v.ExtURLs))
          [] key = "danbooru_id" -> Store(acc, "DanbooruID", DecodeInt(m.val, acc.v.DanbooruID))
          [] key = "source" -> Store(acc, "Source", DecodeString(m.val, acc.v.Source))
          [] key = "characters" -> Store(acc, "Characters", DecodeString(m.val, acc.v.Characters))
          [] key = "material" -> Store(acc, "Material", DecodeString(m.val, acc.v.Material))
          [] key = "creator" -> Store(acc, "Creator", DecodeString(m.val, acc.v.Creator))
          [] OTHER -> acc

RECURSIVE DanbooruDataMembers(_, _)
DanbooruDataMembers(acc, ms) ==
    IF ms = <<>> \/ acc.hard THEN acc
    ELSE DanbooruDataMembers(DanbooruDataField(acc, Head(ms)), Tail(ms))

UnmarshalDanbooruData(d) ==
    CASE d.k \in {"empty", "malformed"} -> Dec(ZeroDanbooruData, SyntaxError, TRUE)
      [] d.k = "null" -> Dec(ZeroDanbooruData, NilErr, FALSE)
      [] d.k = "obj" -> DanbooruDataMembers(Dec(ZeroDanbooruData, NilErr, FALSE), d.ms)
      [] OTHER -> Dec(ZeroDanbooruData, UnmarshalTypeError, FALSE)

\* the pair AsDanbooru returns; hasData is "the pointer is not nil"
DanResult(has, d, e) == [hasData |-> has, data |-> d, err |-> e]

\* an AsDanbooru that reports a payload without danbooru_id as an error
AsDanbooru_RejectsMissingFields(res) ==
    LET u == UnmarshalDanbooruData(res.Data)
        complete == res.Data.k = "obj"
                    /\ \E i \in 1..Len(res.Data.ms) : res.Data.ms[i].key = "danbooru_id"
    IN  IF u.err # NilErr \/ ~complete
        THEN DanResult(FALSE, ZeroDanbooruData,
                       ErrorfW("search result as danbooru: ",
                               IF u.err # NilErr THEN u.err ELSE UnmarshalTypeError))
        ELSE DanResult(TRUE, u.v, NilErr)

AsDanbooru(res) ==
    LET u == UnmarshalDanbooruData(res.Data)
    IN  IF u.err # NilErr
        THEN DanResult(FALSE, ZeroDanbooruData, ErrorfW("search result as danbooru: ", u.err))
        ELSE DanResult(TRUE, u.v, NilErr)

(***************************************************************************)
(* The remote service's side of the wire: how a response value is written  *)
(* as JSON.  short_limit, Long_limit and similarity go out as strings      *)
(* holding numbers, the other numbers as JSON numbers; a result whose      *)
(* payload is absent has no "data" member.                                 *)
(***************************************************************************)
FormatFloat(x) ==
    FormatUint(x \div 100)
      \o (IF x % 100 = 0 THEN <<>>
          ELSE IF x % 10 = 0 THEN <<".", Digits[((x % 100) \div 10) + 1]>>
          ELSE <<".", Digits[((x % 100) \div 10) + 1], Digits[(x % 10) + 1]>>)

WireHeader(h) ==
    JObj(<<Member("user_id", JStr(<<"0">>)),
           Member("short_limit", JStr(FormatUint(h.ShortLimit))),
           Member("Long_limit", JStr(FormatUint(h.LongLimit))),
           Member("long_remaining", JNum(FormatUint(h.LongRemaining))),
           Member("short_remaining", JNum(FormatUint(h.ShortRemaining))),
           Member("status", JNum(FormatUint(h.Status))),
           Member("results_requested", JNum(FormatUint(h.ResultsRequested))),
           Member("minimum_similarity", JNum(FormatFloat(h.MinimumSimilarity))),
           Member("results_returned", JNum(FormatUint(h.ResultsReturned)))>>)

WireResult(res) ==
    JObj(<<Member("header",
                  JObj(<<Member("similarity", JStr(FormatFloat(res.Header.Similarity))),
                         Member("thumbnail", JStr(res.Header.Thumbnail)),
                         Member("index_id", JNum(FormatUint(res.Header.IndexID))),
                         Member("index_name", JStr(res.Header.IndexName))>>))>>
         \o (IF res.Data = Empty THEN <<>> ELSE <<Member("data", res.Data)>>))

Wire(v) ==
    JObj(<<Member("header", WireHeader(v.Header)),
           Member("results", JArr([i \in 1..Len(v.Results) |-> WireResult(v.Results[i])]))>>)

(***************************************************************************)
(* The values the model draws from                                         *)
(***************************************************************************)
\* the header of the test fixture, and a second one
FixtureHeader ==
    [Status |-> 0, ResultsRequested |-> 16, ResultsReturned |-> 16,
     ShortRemaining |-> 5, LongRemaining |-> 199, ShortLimit |-> 6, LongLimit |-> 200,
     MinimumSimilarity |-> 2460]
OtherHeader ==
    [Status |-> 2, ResultsRequested |-> 3, ResultsReturned |-> 1,
     ShortRemaining |-> 0, LongRemaining |-> 40, ShortLimit |-> 12, LongLimit |-> 100,
     MinimumSimilarity |-> 5500]
HeaderValues == {FixtureHeader, OtherHeader}

DanbooruPayload ==
    JObj(<<Member("source", JStr(<<"http://img10.pixiv.net/img/howard19862002/12897460.jpg">>)),
           Member("characters", JStr(<<"elis (touhou), kikuri (touhou)">>)),
           Member("material", JStr(<<"touhou">>)),
           Member("creator", JStr(<<"nichimatsu seri">>)),
           Member("danbooru_id", JNum(<<"7", "3", "6", "6", "3", "4">>)),
           Member("ext_urls", JArr(<<JStr(<<"https://danbooru.donmai.us/post/show/736634">>)>>))>>)
\* another index's object
PixivPayload ==
    JObj(<<Member("ext_urls", JArr(<<JStr(<<"https://www.pixiv.net/i/12897460">>)>>)),
           Member("title", JStr(<<"untitled">>)),
           Member("pixiv_id", JNum(<<"1", "2", "8", "9", "7", "4", "6", "0">>)),
           Member("member_name", JStr(<<"howard">>))>>)
\* a Danbooru-like object whose id is a string
MistypedPayload ==
    JObj(<<Member("danbooru_id", JStr(<<"7", "3", "6", "6", "3", "4">>)),
           Member("creator", JStr(<<"nichimatsu seri">>))>>)

DanbooruHeader ==
    [IndexName |-> <<"Index #9: Danbooru - cf735b2a59302bf96aac3960c4e075a1_0.jpg">>,
     IndexID |-> 9,
     Thumbnail |-> <<"https://img3.saucenao.com/booru/c/f/cf735b2a59302bf96aac3960c4e075a1_0.jpg">>,
     Similarity |-> 1871]
PixivHeader ==
    [IndexName |-> <<"Index #5: Pixiv Images - 12897460_p0.jpg">>, IndexID |-> 5,
     Thumbnail |-> <<"https://img1.saucenao.com/res/pixiv/1289/12897460.jpg">>,
     Similarity |-> 9250]

ResultValues ==
    {[Header |-> DanbooruHeader, Data |-> DanbooruPayload],
     [Header |-> PixivHeader, Data |-> PixivPayload],
     [Header |-> DanbooruHeader, Data |-> JNull],
     [Header |-> DanbooruHeader, Data |-> JObj(<<>>)],
     [Header |-> DanbooruHeader, Data |-> MistypedPayload],
     [Header |-> PixivHeader, Data |-> Empty]}

ResponseValues ==
    {[Header |-> h, Results |-> rs] : h \in HeaderValues,
                                      rs \in SeqsUpTo(ResultValues, MaxResults)}

\* bodies that are not the writing of a response value
OddBodies ==
    {Empty, Malformed, JNull, JArr(<<>>),
     \* short_limit as a JSON number
     JObj(<<Member("header", JObj(<<Member("short_limit", JNum(<<"6">>))>>)),
            Member("results", JArr(<<>>))>>),
     \* similarity as a string that holds no number
     JObj(<<Member("results",
                   JArr(<<JObj(<<Member("header",
                                        JObj(<<Member("similarity", JStr(<<"x">>))>>))>>)>>))>>),
     \* results is not an array
     JObj(<<Member("header", WireHeader(FixtureHeader)), Member("results", JStr(<<"none">>))>>)}

Bodies == {Wire(v) : v \in ResponseValues} \cup OddBodies

NoResp == [status |-> 0, statusText |-> "", body |-> Empty, readFails |-> FALSE]

StatusText(code) ==
    CASE code = 200 -> "200 OK"
      [] code = 429 -> "429 Too Many Requests"
      [] code = 500 -> "500 Internal Server Error"
      [] OTHER -> "404 Not Found"

Responses ==
    {[status |-> 200, statusText |-> StatusText(200), body |-> b, readFails |-> f] :
        b \in Bodies, f \in BOOLEAN}
    \cup {[status |-> st, statusText |-> StatusText(st), body |-> b, readFails |-> FALSE] :
            st \in {429, 500, 404}, b \in {Malformed, Wire([Header |-> FixtureHeader, Results |-> <<>>])}}

\* what c.C.Do returns when the exchange fails, and a failing body read
TransportErrors ==
    {NewErr("*url.Error", "Get: dial tcp: connection refused"),
     NewErr("*url.Error", "Get: context canceled")}
BodyReadError == NewErr("*errors.errorString", "unexpected EOF")

Boundaries == {"boundary-1", "boundary-2"}

ImageAlphabet == {"e", "-", "\r", "\n"}
Readers ==
    {[set |-> TRUE, data |-> d, failAt |-> f] :
        d \in SeqsUpTo(ImageAlphabet, MaxImageLen), f \in -1..MaxImageLen}
Images == {NoImage} \cup {i \in Readers : i.failAt <= Len(i.data)}

GoodService == <<"h", ":", "/", "/", "x">>
Services == {GoodService, <<"h", ":", "/", "/", "x", "\n">>, <<":">>}
APIKeys == {<<"k">>, <<"a", "b">>}
URLs == {<<>>, <<"h", ":", "/", "/", "a">>, <<"a", " ", "&", "=">>}
Masks == {0, 512, 4608}
MasksI == {0, 32}
NumResValues == {0, 16}

Clients == [Service : Services, APIKey : APIKeys]

\* requests that vary every field, with three readers
ByFields ==
    [URL : URLs,
     ImageBytes : {NoImage, [set |-> TRUE, data |-> <<"e">>, failAt |-> -1],
                   [set |-> TRUE, data |-> <<"e", "-">>, failAt |-> 1]},
     TestMode : BOOLEAN, DBMask : Masks, DBMaskI : MasksI, NumRes : NumResValues]
\* requests that vary the reader
ByImage ==
    [URL : {<<>>, <<"h", ":", "/", "/", "a">>}, ImageBytes : Images,
     TestMode : {FALSE}, DBMask : {0}, DBMaskI : {0}, NumRes : {16}]
\* the few requests a whole Search call is followed for
FewRequests ==
    [URL : {<<>>, <<"h", ":", "/", "/", "a">>},
     ImageBytes : {NoImage, [set |-> TRUE, data |-> <<"e", "\r">>, failAt |-> -1],
                   [set |-> TRUE, data |-> <<"e", "-">>, failAt |-> 1],
                   [set |-> TRUE, data |-> <<"e">>, failAt |-> 0]},
     TestMode : {FALSE}, DBMask : {0}, DBMaskI : {0}, NumRes : {16}]
FewClients == [Service : {GoodService, <<"h", ":", "/", "/", "x", "\n">>}, APIKey : {<<"k">>}]

(***************************************************************************)
(* What Search returns.                                                    *)
(***************************************************************************)
NoRet == [kind |-> "none", hasResp |-> FALSE, resp |-> ZeroSearchResponse, err |-> NilErr]
RetErr(e) == [kind |-> "value", hasResp |-> FALSE, resp |-> ZeroSearchResponse, err |-> e]
RetOk(v) == [kind |-> "value", hasResp |-> TRUE, resp |-> v, err |-> NilErr]
RetPanic == [kind |-> "panic", hasResp |-> FALSE, resp |-> ZeroSearchResponse, err |-> NilErr]

NoDan == [called |-> FALSE, payload |-> Empty, res |-> DanResult(FALSE, ZeroDanbooruData, NilErr)]

\* Search, line 93: the construction error, wrapped with %w
SearchBuildError(e) == ErrorfW("saucenao search: ", e)

\* Search, line 97: the transport's error, by its text only
SearchTransportError(e) == ErrorfS("saucenao search: ", e)

\* the status switch without the 429 case, as in the earlier revision
SearchStatusError_NoQuota(rs) ==
    CASE rs.status = 200 -> NilErr
      [] OTHER -> [msg |-> <<"saucenao search: unexpected status ", rs.statusText>>,
                   chain |-> <<"*errors.errorString">>]

\* Search, lines 100-106: the error for a status, NilErr for 200
SearchStatusError(rs) ==
    CASE rs.status = 200 -> NilErr
      [] rs.status = 429 -> ErrorfW("saucenao search: ", QuotaError)
      [] OTHER -> [msg |-> <<"saucenao search: unexpected status ", rs.statusText>>,
                   chain |-> <<"*errors.errorString">>]

\* Search, line 109
SearchReadError(e) == ErrorfS("saucenao search: ", e)

\* a decode step that wraps the decoder's error with %w
SearchDecode_Wraps(d) ==
    LET u == UnmarshalSearchResponse(d)
    IN  IF u.err # NilErr THEN RetErr(ErrorfW("saucenao search: ", u.err)) ELSE RetOk(u.v)

\* Search, lines 111-115
SearchDecode(d) ==
    LET u == UnmarshalSearchResponse(d)
    IN  IF u.err # NilErr THEN RetErr(ErrorfS("saucenao search: ", u.err)) ELSE RetOk(u.v)

(***************************************************************************)
(* The steps of one Search call.                                           *)
(***************************************************************************)
\* lines 91-94: requestForSearch, and the return of its error
Build ==
    /\ pc = "start"
    /\ \E bnd \in Boundaries :
         LET b == requestForSearch(c, r, streamPos, bnd)
         IN  /\ streamPos' = b.pos
             /\ req' = b.req
             /\ pc' = IF b.panicked THEN "panicked"
                      ELSE IF b.err # NilErr THEN "returned" ELSE "built"
             /\ ret' = IF b.panicked THEN RetPanic
                       ELSE IF b.err # NilErr THEN RetErr(SearchBuildError(b.err)) ELSE ret
    /\ steps' = steps \cup {"build"}
    /\ UNCHANGED <<c, r, sent, resp, body, dan, nCalls>>

\* a hand-over that is repeated after the call has returned
Do_Retries ==
    /\ pc \in {"built", "returned"}
    /\ req # NoReq
    /\ Len(sent) < 2
    /\ sent' = Append(sent, req)
    /\ pc' = "inflight"
    /\ ret' = NoRet
    /\ steps' = steps \cup {"do"}
    /\ UNCHANGED <<c, r, streamPos, req, resp, body, dan, nCalls>>

\* line 95: the request is handed to the transport
Do ==
    /\ pc = "built"
    /\ sent' = Append(sent, req)
    /\ pc' = "inflight"
    /\ steps' = steps \cup {"do"}
    /\ UNCHANGED <<c, r, streamPos, req, resp, body, ret, dan, nCalls>>

\* lines 95-98: the transport fails
DoFails ==
    /\ pc = "inflight"
    /\ \E e \in TransportErrors : ret' = RetErr(SearchTransportError(e))
    /\ pc' = "returned"
    /\ UNCHANGED <<c, r, streamPos, req, sent, resp, body, steps, dan, nCalls>>

\* lines 95, 99-106: the transport answers, and the status switch
DoReturns ==
    /\ pc = "inflight"
    /\ \E rs \in Responses :
         /\ resp' = rs
         /\ pc' = IF SearchStatusError(rs) = NilErr THEN "reading" ELSE "returned"
         /\ ret' = IF SearchStatusError(rs) = NilErr THEN ret
                   ELSE RetErr(SearchStatusError(rs))
    /\ UNCHANGED <<c, r, streamPos, req, sent, body, steps, dan, nCalls>>

\* lines 107-110: ioutil.ReadAll(resp.Body)
ReadAll ==
    /\ pc = "reading"
    /\ steps' = steps \cup {"read"}
    /\ IF resp.readFails
       THEN /\ pc' = "returned"
            /\ ret' = RetErr(SearchReadError(BodyReadError))
            /\ body' = body
       ELSE /\ pc' = "read"
            /\ body' = resp.body
            /\ ret' = ret
    /\ UNCHANGED <<c, r, streamPos, req, sent, resp, dan, nCalls>>

\* lines 111-115: json.Unmarshal(d, &sr) and the return
Unmarshal ==
    /\ pc = "read"
    /\ steps' = steps \cup {"decode"}
    /\ ret' = SearchDecode(body)
    /\ pc' = "returned"
    /\ UNCHANGED <<c, r, streamPos, req, sent, resp, body, dan, nCalls>>

\* the caller decodes one result's payload
CallAsDanbooru ==
    /\ pc = "returned"
    /\ ret.hasResp
    /\ \E i \in 1..Len(ret.resp.Results) :
         dan' = [called |-> TRUE, payload |-> ret.resp.Results[i].Data,
                 res |-> AsDanbooru(ret.resp.Results[i])]
    /\ UNCHANGED <<c, r, streamPos, pc, req, sent, resp, body, steps, ret, nCalls>>

\* the caller starts another Search on the same client, with a new request
NewCall ==
    /\ pc = "returned"
    /\ nCalls < MaxCalls
    /\ r' \in FewRequests
    /\ streamPos' = 0
    /\ pc' = "start"
    /\ req' = NoReq
    /\ sent' = <<>>
    /\ resp' = NoResp
    /\ body' = Empty
    /\ steps' = {}
    /\ ret' = NoRet
    /\ dan' = NoDan
    /\ nCalls' = nCalls + 1
    /\ UNCHANGED c

Fresh ==
    /\ streamPos = 0
    /\ pc = "start"
    /\ req = NoReq
    /\ sent = <<>>
    /\ resp = NoResp
    /\ body = Empty
    /\ steps = {}
    /\ ret = NoRet
    /\ dan = NoDan
    /\ nCalls = 1

\* whole Search calls, for a few requests and every answer of the transport
Init ==
    /\ c \in FewClients
    /\ r \in FewRequests
    /\ Fresh

Next ==
    \/ Build
    \/ Do
    \/ DoFails
    \/ DoReturns
    \/ ReadAll
    \/ Unmarshal
    \/ CallAsDanbooru
    \/ NewCall

Spec == Init /\ [][Next]_vars

\* the rendering of a request, for every client and request, up to the
\* hand-over to the transport
InitBuild ==
    /\ c \in Clients
    /\ r \in ByFields \cup ByImage
    /\ Fresh

NextBuild ==
    \/ Build
    \/ Do

SpecBuild == InitBuild /\ [][NextBuild]_vars

(***************************************************************************)
(* Properties                                                              *)
(***************************************************************************)
Rendered == pc \in {"built", "inflight"}

\* the decimal text of the numbers the requests use, written out
DecimalText(n) ==
    CASE n = 0 -> <<"0">>
      [] n = 16 -> <<"1", "6">>
      [] n = 32 -> <<"3", "2">>
      [] n = 512 -> <<"5", "1", "2">>
      [] n = 4608 -> <<"4", "6", "0", "8">>

\* the percent-encoded text of the URLs the requests use, written out
PercentEncodedText(u) ==
    CASE u = <<>> -> <<>>
      [] u = <<"h", ":", "/", "/", "a">> ->
            <<"h", "%", "3", "A", "%", "2", "F", "%", "2", "F", "a">>
      [] u = <<"a", " ", "&", "=">> -> <<"a", "+", "%", "2", "6", "%", "3", "D">>

ExpectedURL(cl, rq) ==
    Flatten(<<cl.Service, SearchPhp, cl.APIKey, NumresParam, DecimalText(rq.NumRes),
              IF rq.TestMode THEN TestmodeParam ELSE <<>>,
              IF rq.DBMask # 0 THEN DbmaskParam \o DecimalText(rq.DBMask) ELSE <<>>,
              IF rq.DBMaskI # 0 THEN DbmaskiParam \o DecimalText(rq.DBMaskI) ELSE <<>>,
              IF rq.URL # <<>> THEN UrlParam \o PercentEncodedText(rq.URL) ELSE <<>>>>)

\* C1: a request without ImageBytes is rendered as a GET without a body whose
\* URL is Service, "/search.php?output_type=2&api_key=", APIKey, "&numres=" and
\* the decimal NumRes, then in this order "&testmode=1" iff TestMode,
\* "&dbmask=" iff DBMask # 0, "&dbmaski=" iff DBMaskI # 0 and "&url=" with the
\* percent-encoded URL iff URL is not empty; each optional parameter is there
\* exactly when its own field is set.
C1_GetURL ==
    (Rendered /\ ~r.ImageBytes.set) =>
        /\ req.method = "GET"
        /\ ~req.hasBody
        /\ req.body = <<>>
        /\ req.url = ExpectedURL(c, r)
        /\ Contains(req.url, TestmodeParam) <=> r.TestMode
        /\ Contains(req.url, DbmaskParam) <=> (r.DBMask # 0)
        /\ Contains(req.url, DbmaskiParam) <=> (r.DBMaskI # 0)
        /\ Contains(req.url, UrlParam) <=> (r.URL # <<>>)

C1_Witness ==
    /\ pc = "built"
    /\ ~r.ImageBytes.set
    /\ r.TestMode /\ r.DBMask = 0 /\ r.DBMaskI = 32 /\ r.NumRes = 16
    /\ r.URL = <<"a", " ", "&", "=">>
    /\ req.method = "GET"
    /\ req.url = c.Service \o SearchPhp \o c.APIKey \o NumresParam \o <<"1", "6">>
                   \o TestmodeParam \o DbmaskiParam \o <<"3", "2">>
                   \o UrlParam \o <<"a", "+", "%", "2", "6", "%", "3", "D">>

\* C2: every request handed to the transport for a SearchRequest with
\* ImageBytes is a POST with Content-Type multipart/form-data whose body,
\* read with the boundary of that header, is one file part named "file" with
\* filename "image" whose content is the whole of the reader's data, and the
\* reader has been read to its end.
C2_MultipartRoundTrip ==
    \A i \in 1..Len(sent) :
        r.ImageBytes.set =>
            LET part == checkRequestFile(sent[i])
            IN  /\ sent[i].method = "POST"
                /\ sent[i].hasBody
                /\ ParseMediaType(sent[i].contentType).media = "multipart/form-data"
                /\ part.ok
                /\ part.last
                /\ part.name = "file"
                /\ part.filename = "image"
                /\ part.content = r.ImageBytes.data
                /\ streamPos = Len(r.ImageBytes.data)

C2_Witness ==
    /\ Len(sent) = 1
    /\ r.ImageBytes.set
    /\ r.ImageBytes.data = <<"\r", "\n">>
    /\ checkRequestFile(sent[1]).content = <<"\r", "\n">>
    /\ streamPos = 2

\* C3: once the transport has answered, the status decides: 200 goes on to
\* read (and, the read succeeding, decode) the body; 429 returns an error that
\* wraps QuotaError; any other status returns an error with the status text
\* that is no QuotaError; for a status other than 200 the body is neither
\* read nor decoded and no SearchResponse is returned.
C3_StatusSwitch ==
    (pc = "returned" /\ resp # NoResp) =>
        /\ resp.status = 200 =>
              /\ "read" \in steps
              /\ ("decode" \in steps) <=> ~resp.readFails
        /\ resp.status = 429 =>
              /\ ErrorsAs(ret.err, "saucenao.QuotaError")
              /\ ~ret.hasResp
              /\ steps \cap {"read", "decode"} = {}
        /\ resp.status \notin {200, 429} =>
              /\ ret.err # NilErr
              /\ ~ErrorsAs(ret.err, "saucenao.QuotaError")
              /\ ret.err.msg = <<"saucenao search: unexpected status ", resp.statusText>>
              /\ ~ret.hasResp
              /\ steps \cap {"read", "decode"} = {}

C3_Witness ==
    /\ pc = "returned"
    /\ resp.status = 429
    /\ ErrorsAs(ret.err, "saucenao.QuotaError")
    /\ ~ret.hasResp

\* C4 as stated: the URL of a request rendered for a SearchRequest with
\* ImageBytes never holds a "&url=" parameter, whatever the URL field.
C4_PostNeverHasURL ==
    (Rendered /\ r.ImageBytes.set) => ~Contains(req.url, UrlParam)

\* C4, amended: the URL of a request rendered for a SearchRequest with
\* ImageBytes is built as for the GET form, the url parameter included: it
\* holds "&url=" and the percent-encoded URL exactly when the URL field is
\* not empty.
C4_PostURLFollowsField ==
    (Rendered /\ r.ImageBytes.set) =>
        /\ req.method = "POST"
        /\ req.url = ExpectedURL(c, r)
        /\ Contains(req.url, UrlParam) <=> (r.URL # <<>>)

C4_Witness ==
    /\ pc = "built"
    /\ r.ImageBytes.set
    /\ r.URL = <<"h", ":", "/", "/", "a">>
    /\ req.method = "POST"
    /\ Contains(req.url, UrlParam \o <<"h", "%", "3", "A">>)

\* C5 as stated: no Search call ends in a panic; every failure is a returned
\* error.
C5_NeverPanics ==
    pc # "panicked" /\ ret.kind # "panic"

\* C6 as stated: the error returned for a body that fails JSON decoding
\* differs in kind (the types errors.As can see) from every error returned
\* for a transport failure and for an unexpected status.
C6_DecodeErrorHasOwnKind ==
    (pc = "returned" /\ "decode" \in steps /\ ret.err # NilErr) =>
        /\ \A e \in TransportErrors : ret.err.chain # SearchTransportError(e).chain
        /\ \A rs \in Responses :
              rs.status \notin {200, 429} => ret.err.chain # SearchStatusError(rs).chain

\* C6, amended: a body that fails JSON decoding returns no response and an
\* error that is the decoder's message after "saucenao search: " and wraps
\* nothing; it is no QuotaError, and it is of the same kind as the errors for
\* a transport failure and for an unexpected status.
C6_DecodeErrorIsFlat ==
    (pc = "returned" /\ "decode" \in steps /\ UnmarshalSearchResponse(body).err # NilErr) =>
        /\ ~ret.hasResp
        /\ ret.err.msg = <<"saucenao search: ">> \o UnmarshalSearchResponse(body).err.msg
        /\ ret.err.chain = <<"*errors.errorString">>
        /\ ~ErrorsAs(ret.err, "saucenao.QuotaError")
        /\ \A e \in TransportErrors : ret.err.chain = SearchTransportError(e).chain
        /\ \A rs \in Responses :
              rs.status \notin {200, 429} => ret.err.chain = SearchStatusError(rs).chain

C6_Witness ==
    /\ pc = "returned"
    /\ "decode" \in steps
    /\ body = Malformed
    /\ ret.err.msg = <<"saucenao search: ", "unexpected end of JSON input">>
    /\ ~ret.hasResp

\* the JSON kind each Danbooru field wants
DanbooruFieldKind(key) ==
    CASE key = "danbooru_id" -> "num"
      [] key = "ext_urls" -> "arr"
      [] OTHER -> "str"

DanbooruKeys == {"ext_urls", "danbooru_id", "source", "characters", "material", "creator"}

\* the object has a member that selects the field tagged key
HasKey(p, key) == \E i \in 1..Len(p.ms) : FoldKey(p.ms[i].key) = key

\* the payload is an object with every Danbooru field, each of its kind
MatchesDanbooruSchema(p) ==
    /\ p.k = "obj"
    /\ \A key \in DanbooruKeys :
          \E i \in 1..Len(p.ms) : p.ms[i].key = key /\ p.ms[i].val.k = DanbooruFieldKind(key)

\* the JSON value cannot be stored in the Danbooru field tagged key: it is
\* neither null nor of the field's kind, or it is a number that is no integer,
\* or an array with an element that is neither a string nor null
Unstorable(key, val) ==
    \/ val.k \notin {"null", DanbooruFieldKind(key)}
    \/ (val.k = "num" /\ ~IsIntLiteral(val.lit))
    \/ (val.k = "arr" /\ \E i \in 1..Len(val.xs) : val.xs[i].k \notin {"null", "str"})

\* the payload is an object with a member no Danbooru field can store
HasMistypedField(p) ==
    /\ p.k = "obj"
    /\ \E i \in 1..Len(p.ms) :
          /\ FoldKey(p.ms[i].key) \in DanbooruKeys
          /\ Unstorable(FoldKey(p.ms[i].key), p.ms[i].val)

\* C7 as stated: AsDanbooru on a payload that is malformed or does not match
\* the Danbooru schema returns an error and no data.
C7_MismatchIsAnError ==
    (dan.called /\ ~MatchesDanbooruSchema(dan.payload)) =>
        /\ dan.res.err # NilErr
        /\ ~dan.res.hasData

\* C7, amended: AsDanbooru returns no data and an error that wraps the json
\* package's error when the payload is empty or malformed, is neither an
\* object nor null, or holds a member that its Danbooru field cannot store;
\* for null and for an object without such a member (the empty object,
\* another index's object) it returns a nil error and data in which every
\* absent field is zero.
C7_OnlyBadJSONIsAnError ==
    dan.called =>
        IF dan.payload.k \in {"empty", "malformed"}
        THEN /\ ~dan.res.hasData
             /\ ErrorsAs(dan.res.err, "*json.SyntaxError")
        ELSE IF dan.payload.k \notin {"null", "obj"} \/ HasMistypedField(dan.payload)
        THEN /\ ~dan.res.hasData
             /\ ErrorsAs(dan.res.err, "*json.UnmarshalTypeError")
        ELSE /\ dan.res.hasData
             /\ dan.res.err = NilErr
             /\ dan.payload.k = "null" => dan.res.data = ZeroDanbooruData
             /\ dan.payload.k = "obj" =>
                   /\ ~HasKey(dan.payload, "danbooru_id") => dan.res.data.DanbooruID = 0
                   /\ ~HasKey(dan.payload, "source") => dan.res.data.Source = <<>>
                   /\ ~HasKey(dan.payload, "characters") => dan.res.data.Characters = <<>>
                   /\ ~HasKey(dan.payload, "material") => dan.res.data.Material = <<>>
                   /\ ~HasKey(dan.payload, "creator") => dan.res.data.Creator = <<>>
                   /\ ~HasKey(dan.payload, "ext_urls") => dan.res.data.ExtURLs = <<>>

C7_Witness ==
    /\ dan.called
    /\ dan.payload = PixivPayload
    /\ dan.res.hasData
    /\ dan.res.err = NilErr
    /\ dan.res.data.DanbooruID = 0
    /\ dan.res.data.ExtURLs = <<<<"https://www.pixiv.net/i/12897460">>>>

WireBodies == {Wire(v) : v \in ResponseValues}

\* C8: decoding the body the service writes for a response value gives that
\* value back: every header field (short_limit, Long_limit and similarity
\* from strings holding numbers, the rest from JSON numbers), every result's
\* payload as it stood on the wire, and the results in wire order.
C8_DecodeReproducesResponse ==
    (pc = "returned" /\ "decode" \in steps /\ body \in WireBodies) =>
        /\ ret.hasResp
        /\ ret.err = NilErr
        /\ ret.resp \in ResponseValues
        /\ Wire(ret.resp) = body
        /\ body = Wire([Header |-> FixtureHeader, Results |-> <<>>]) =>
              /\ ret.resp.Header.ShortLimit = 6
              /\ ret.resp.Header.LongLimit = 200
              /\ ret.resp.Header.MinimumSimilarity = 2460
              /\ ret.resp.Header.ResultsReturned = 16

C8_Witness ==
    /\ pc = "returned"
    /\ ret.hasResp
    /\ ret.resp.Header = FixtureHeader
    /\ Len(ret.resp.Results) = 2
    /\ ret.resp.Results[1].Header.Similarity = 1871
    /\ ret.resp.Results[1].Data = DanbooruPayload
    /\ ret.resp.Results[2].Data = PixivPayload
    /\ body = Wire(ret.resp)

\* C9: when reading ImageBytes fails while the request is built, Search
\* returns the read error wrapped as a construction error and no response,
\* and nothing is handed to the transport in that call.
C9_ReadFailureSendsNothing ==
    (r.ImageBytes.set /\ r.ImageBytes.failAt >= 0 /\ "build" \in steps) =>
        /\ pc = "returned"
        /\ sent = <<>>
        /\ "do" \notin steps
        /\ req = NoReq
        /\ ~ret.hasResp
        /\ ret.err = SearchBuildError(ReadError)
        /\ ErrorsAs(ret.err, "*os.PathError")

C9_Witness ==
    /\ pc = "returned"
    /\ r.ImageBytes.set
    /\ r.ImageBytes.failAt = 1
    /\ streamPos = 1
    /\ sent = <<>>
    /\ ErrorsAs(ret.err, "*os.PathError")

\* C10: a Search call hands at most one request to the transport, and once
\* it has returned (with whatever error) it hands over no other.
C10_NoRetry ==
    /\ [](Len(sent) <= 1)
    /\ [][pc = "returned" => (sent' = sent \/ pc' = "start")]_vars

C10_Witness ==
    /\ pc = "returned"
    /\ Len(sent) = 1
    /\ "decode" \in steps
    /\ ret.err # NilErr

(***************************************************************************)
(* Concurrent Search calls on one Client.  In this specification c is the  *)
(* one shared Client and every call-local variable (r, streamPos, pc, req, *)
(* sent, resp, body, steps, ret) holds one value per call; a step of call  *)
(* i reads c and call i's values and writes call i's values only, as the   *)
(* locals of Search and requestForSearch do.  resp[i] is the transport's   *)
(* answer to call i: a failure with its error, or a response.              *)
(***************************************************************************)
MaxConc == 2

CallIds == 1..MaxConc

NoAnswer == [given |-> FALSE, fails |-> FALSE, err |-> NilErr, rs |-> NoResp]
AnswerErr(e) == [given |-> TRUE, fails |-> TRUE, err |-> e, rs |-> NoResp]
AnswerResp(rs) == [given |-> TRUE, fails |-> FALSE, err |-> NilErr, rs |-> rs]

ConcRequests ==
    {[URL |-> <<"h", ":", "/", "/", "a">>, ImageBytes |-> NoImage,
      TestMode |-> FALSE, DBMask |-> 0, DBMaskI |-> 0, NumRes |-> 16],
     [URL |-> <<>>, ImageBytes |-> [set |-> TRUE, data |-> <<"e", "\r">>, failAt |-> -1],
      TestMode |-> TRUE, DBMask |-> 512, DBMaskI |-> 0, NumRes |-> 0],
     [URL |-> <<>>, ImageBytes |-> [set |-> TRUE, data |-> <<"e", "-">>, failAt |-> 1],
      TestMode |-> FALSE, DBMask |-> 0, DBMaskI |-> 32, NumRes |-> 16]}

ConcAnswers ==
    {AnswerErr(NewErr("*url.Error", "Get: context canceled"))}
    \cup {AnswerResp([status |-> st, statusText |-> StatusText(st), body |-> Malformed,
                      readFails |-> FALSE]) : st \in {200, 429}}
    \cup {AnswerResp([status |-> 200, statusText |-> StatusText(200),
                      body |-> Wire([Header |-> FixtureHeader,
                                     Results |-> <<[Header |-> DanbooruHeader,
                                                    Data |-> DanbooruPayload]>>]),
                      readFails |-> f]) : f \in BOOLEAN}

\* a ConcBuild that also rewrites the shared client's Service
ConcBuild_WritesClient(i) ==
    /\ pc[i] = "start"
    /\ \E bnd \in Boundaries :
         LET b == requestForSearch(c, r[i], streamPos[i], bnd)
         IN  /\ streamPos' = [streamPos EXCEPT ![i] = b.pos]
             /\ req' = [req EXCEPT ![i] = b.req]
             /\ pc' = [pc EXCEPT ![i] = IF b.panicked THEN "panicked"
                                        ELSE IF b.err # NilErr THEN "returned" ELSE "built"]
             /\ ret' = [ret EXCEPT ![i] = IF b.panicked THEN RetPanic
                                          ELSE IF b.err # NilErr
                                          THEN RetErr(SearchBuildError(b.err)) ELSE @]
    /\ steps' = [steps EXCEPT ![i] = @ \cup {"build"}]
    /\ c' = [c EXCEPT !.Service = GoodService]
    /\ UNCHANGED <<r, sent, resp, body, dan, nCalls>>

\* call i, lines 91-94
ConcBuild(i) ==
    /\ pc[i] = "start"
    /\ \E bnd \in Boundaries :
         LET b == requestForSearch(c, r[i], streamPos[i], bnd)
         IN  /\ streamPos' = [streamPos EXCEPT ![i] = b.pos]
             /\ req' = [req EXCEPT ![i] = b.req]
             /\ pc' = [pc EXCEPT ![i] = IF b.panicked THEN "panicked"
                                        ELSE IF b.err # NilErr THEN "returned" ELSE "built"]
             /\ ret' = [ret EXCEPT ![i] = IF b.panicked THEN RetPanic
                                          ELSE IF b.err # NilErr
                                          THEN RetErr(SearchBuildError(b.err)) ELSE @]
    /\ steps' = [steps EXCEPT ![i] = @ \cup {"build"}]
    /\ UNCHANGED <<c, r, sent, resp, body, dan, nCalls>>

\* call i, line 95: its own request is handed to the transport
ConcDo(i) ==
    /\ pc[i] = "built"
    /\ sent' = [sent EXCEPT ![i] = Append(@, req[i])]
    /\ pc' = [pc EXCEPT ![i] = "inflight"]
    /\ steps' = [steps EXCEPT ![i] = @ \cup {"do"}]
    /\ UNCHANGED <<c, r, streamPos, req, resp, body, ret, dan, nCalls>>

\* call i, lines 95-106: the transport's answer, the error return and the
\* status switch
ConcDoReturns(i) ==
    /\ pc[i] = "inflight"
    /\ \E a \in ConcAnswers :
         /\ resp' = [resp EXCEPT ![i] = a]
         /\ IF a.fails
            THEN /\ pc' = [pc EXCEPT ![i] = "returned"]
                 /\ ret' = [ret EXCEPT ![i] = RetErr(SearchTransportError(a.err))]
            ELSE /\ pc' = [pc EXCEPT ![i] = IF SearchStatusError(a.rs) = NilErr
                                            THEN "reading" ELSE "returned"]
                 /\ ret' = [ret EXCEPT ![i] = IF SearchStatusError(a.rs) = NilErr THEN @
                                              ELSE RetErr(SearchStatusError(a.rs))]
    /\ UNCHANGED <<c, r, streamPos, req, sent, body, steps, dan, nCalls>>

\* call i, lines 107-110
ConcReadAll(i) ==
    /\ pc[i] = "reading"
    /\ steps' = [steps EXCEPT ![i] = @ \cup {"read"}]
    /\ IF resp[i].rs.readFails
       THEN /\ pc' = [pc EXCEPT ![i] = "returned"]
            /\ ret' = [ret EXCEPT ![i] = RetErr(SearchReadError(BodyReadError))]
            /\ body' = body
       ELSE /\ pc' = [pc EXCEPT ![i] = "read"]
            /\ body' = [body EXCEPT ![i] = resp[i].rs.body]
            /\ ret' = ret
    /\ UNCHANGED <<c, r, streamPos, req, sent, resp, dan, nCalls>>

\* call i, lines 111-115
ConcUnmarshal(i) ==
    /\ pc[i] = "read"
    /\ steps' = [steps EXCEPT ![i] = @ \cup {"decode"}]
    /\ ret' = [ret EXCEPT ![i] = SearchDecode(body[i])]
    /\ pc' = [pc EXCEPT ![i] = "returned"]
    /\ UNCHANGED <<c, r, streamPos, req, sent, resp, body, dan, nCalls>>

InitConc ==
    /\ c \in FewClients
    /\ r \in [CallIds -> ConcRequests]
    /\ streamPos = [i \in CallIds |-> 0]
    /\ pc = [i \in CallIds |-> "start"]
    /\ req = [i \in CallIds |-> NoReq]
    /\ sent = [i \in CallIds |-> <<>>]
    /\ resp = [i \in CallIds |-> NoAnswer]
    /\ body = [i \in CallIds |-> Empty]
    /\ steps = [i \in CallIds |-> {}]
    /\ ret = [i \in CallIds |-> NoRet]
    /\ dan = NoDan
    /\ nCalls = MaxConc

ConcStep(i) ==
    \/ ConcBuild(i)
    \/ ConcDo(i)
    \/ ConcDoReturns(i)
    \/ ConcReadAll(i)
    \/ ConcUnmarshal(i)

NextConc == \E i \in CallIds : ConcStep(i)

SpecConc == InitConc /\ [][NextConc]_vars

\* Search run alone: lines 90-116 from start to return, for client cl,
\* request rq (its reader unread), writer boundary bnd and transport answer a
SearchAlone(cl, rq, bnd, a) ==
    LET b == requestForSearch(cl, rq, 0, bnd)
    IN  IF b.panicked THEN RetPanic
        ELSE IF b.err # NilErr THEN RetErr(SearchBuildError(b.err))
        ELSE IF a.fails THEN RetErr(SearchTransportError(a.err))
        ELSE IF SearchStatusError(a.rs) # NilErr THEN RetErr(SearchStatusError(a.rs))
        ELSE IF a.rs.readFails THEN RetErr(SearchReadError(BodyReadError))
        ELSE SearchDecode(a.rs.body)

\* call i has rendered its request and, if it is over, returned its outcome
\* as a call running alone would, for some boundary of the multipart writer
AsIfAlone(i) ==
    \E bnd \in Boundaries :
        /\ "build" \in steps[i] => req[i] = requestForSearch(c, r[i], 0, bnd).req
        /\ \A k \in 1..Len(sent[i]) : sent[i][k] = requestForSearch(c, r[i], 0, bnd).req
        /\ pc[i] \in {"returned", "panicked"} => ret[i] = SearchAlone(c, r[i], bnd, resp[i])

\* C11: under every interleaving of the steps of concurrent Search calls on
\* one Client, each with its own SearchRequest, no step changes the client's
\* Service or APIKey, and each call's rendered request and returned outcome
\* are those of that call run alone with the same transport answer.
C11_ConcurrentCallsIndependent ==
    /\ [][c' = c]_vars
    /\ [](\A i \in CallIds : AsIfAlone(i))

C11_Witness ==
    /\ pc[1] = "reading"
    /\ pc[2] = "returned"
    /\ r[1].ImageBytes.set
    /\ ~r[2].ImageBytes.set
    /\ req[1].method = "POST"
    /\ sent[2] = <<req[2]>>
    /\ req[2].method = "GET"
    /\ ErrorsAs(ret[2].err, "saucenao.QuotaError")
    /\ ret[1] = NoRet

====
